---- MODULE Spec2Model ----
(***************************************************************************)
(* State-machine model of src/main.rs: a Bevy demo scene whose three       *)
(* per-frame systems are toggle_button_system, update_player_camera and    *)
(* debug_overlay.  A frame is: the engine prepares the frame (input,       *)
(* time delta, propagated camera transform, bodies registered by the       *)
(* physics plugin), then the three systems run once each, in any order.    *)
(*                                                                         *)
(* Lengths are in half units (2.5 is written 5), time in tenths of a       *)
(* second (0.2 s is written 2).  A Vec3 is <<x, y, z>>, a Quat is          *)
(* <<x, y, z, w>>.                                                         *)
(***************************************************************************)
EXTENDS Integers, Sequences, FiniteSets, TLC

\* ---- bounds of the model ------------------------------------------------
MaxCoord == 0          \* camera x coordinate ranges over 0..MaxCoord
MaxDelta == 2          \* a frame's time delta ranges over 0..MaxDelta
MaxText == 2           \* Text entities in a misused world: 0..MaxText
MaxCams == 2           \* FlyCamera entities in a misused world: 0..MaxCams

\* ---- program constants --------------------------------------------------
TimerDuration == 2     \* Timer::from_seconds(0.2, true)
NumCubes == 9          \* for i in 1..10

VARIABLES
    cams,        \* the FlyCamera entities: [enabled, translation, rotation]
    window,      \* primary window: [present, cursor_locked, cursor_visible]
    mouse_left,  \* Input<MouseButton>.just_pressed(Left) of this frame
    key_escape,  \* Input<KeyCode>.just_pressed(Escape) of this frame
    delta,       \* Time::delta() of this frame
    player,      \* the Player resource: [location, rotation]
    bodies,      \* the RigidBodySet: sequence of [status, position, next]
    timer,       \* DebugOverlayTimer: [elapsed, finished, times_finished]
    texts,       \* value of sections[0] of every Text entity
    ran,         \* the systems that have run in the current frame
    panicked,    \* the system whose unwrap failed, or "none"
    playerPrev,  \* history: Player at the end of the previous frame
    frameReqs,   \* history: <<body, isometry>> requests issued this frame
    fired,       \* history: timer firings seen by debug_overlay, capped at 2
    handled      \* history: a left-click or Escape has been handled

vars == <<cams, window, mouse_left, key_escape, delta, player, bodies, timer,
          texts, ran, panicked, playerPrev, frameReqs, fired, handled>>

\* ---- values -------------------------------------------------------------
Zero3 == <<0, 0, 0>>
QuatIdentity == <<0, 0, 0, 1>>
QuatHalfTurnY == <<0, 1, 0, 0>>
CameraSpawn == <<0, 5, 0>>

Positions == {Zero3} \cup {<<x, 5, 0>> : x \in 0..MaxCoord}
Rotations == {QuatIdentity, QuatHalfTurnY}

Systems == {"toggle_button_system", "update_player_camera", "debug_overlay"}

\* #[derive(Default)] struct Player
DefaultPlayer == [location |-> Zero3, rotation |-> QuatIdentity]

\* impl Display for Player: the seven components in the order of the format
\* string, between its literal pieces.
Format(p) ==
    <<"location = (", p.location[1], p.location[2], p.location[3],
      ")\nrotation = (", p.rotation[1], p.rotation[2], p.rotation[3],
      p.rotation[4], ")">>

Welcome == <<"welcome">>

\* RigidBodyBuilder::new_*().translation(x, y, z); no position requested yet
Body(status, pos) == [status |-> status, position |-> pos, next |-> <<>>]

\* setup_world: the static plane, the dynamic cubes, the kinematic hitbox
WorldBodies ==
    <<Body("static", <<0, 2, 0>>)>>
    \o [i \in 1..NumCubes |-> Body("dynamic", <<0, 5 + 4 * i, -20>>)]
    \o <<Body("kinematic", <<0, 12, 0>>)>>

\* PerspectiveCameraBundle + FlyCamera::default(); global_transform is
\* Default::default() until the engine propagates the local transform.
FlyCam(pos, rot) == [enabled |-> TRUE, translation |-> pos, rotation |-> rot]

\* ---- toggle_button_system -----------------------------------------------
\* (variant: the Escape block runs before the left-click block)
ToggleOne_EscapeFirst(options, w, left, esc) ==
    LET o1 == IF esc /\ options.enabled
              THEN [options EXCEPT !.enabled = FALSE] ELSE options
        w1 == IF esc
              THEN [w EXCEPT !.cursor_locked = FALSE, !.cursor_visible = TRUE]
              ELSE w
        o2 == IF left /\ ~o1.enabled
              THEN [o1 EXCEPT !.enabled = TRUE] ELSE o1
        w2 == IF left
              THEN [w1 EXCEPT !.cursor_locked = TRUE, !.cursor_visible = FALSE]
              ELSE w1
    IN  [options |-> o2, window |-> w2]

\* (variant: the left-click block does not hide the cursor)
ToggleOne_NoHide(options, w, left, esc) ==
    LET o1 == IF left /\ ~options.enabled
              THEN [options EXCEPT !.enabled = TRUE] ELSE options
        w1 == IF left THEN [w EXCEPT !.cursor_locked = TRUE] ELSE w
        o2 == IF esc /\ o1.enabled
              THEN [o1 EXCEPT !.enabled = FALSE] ELSE o1
        w2 == IF esc
              THEN [w1 EXCEPT !.cursor_locked = FALSE, !.cursor_visible = TRUE]
              ELSE w1
    IN  [options |-> o2, window |-> w2]

\* The loop body for one FlyCamera, once the window has been unwrapped:
\* the left-click block, then the Escape block.
ToggleOne(options, w, left, esc) ==
    LET o1 == IF left /\ ~options.enabled
              THEN [options EXCEPT !.enabled = TRUE] ELSE options
        w1 == IF left
              THEN [w EXCEPT !.cursor_locked = TRUE, !.cursor_visible = FALSE]
              ELSE w
        o2 == IF esc /\ o1.enabled
              THEN [o1 EXCEPT !.enabled = FALSE] ELSE o1
        w2 == IF esc
              THEN [w1 EXCEPT !.cursor_locked = FALSE, !.cursor_visible = TRUE]
              ELSE w1
    IN  [options |-> o2, window |-> w2]

\* for mut options in query.iter_mut(): unwrap the primary window (panic if
\* there is none), then the loop body.
RECURSIVE ToggleLoop(_, _, _, _, _)
ToggleLoop(i, cs, w, left, esc) ==
    IF i > Len(cs) THEN [cams |-> cs, window |-> w, panicked |-> FALSE]
    ELSE IF ~w.present THEN [cams |-> cs, window |-> w, panicked |-> TRUE]
    ELSE LET r == ToggleOne(cs[i], w, left, esc)
         IN  ToggleLoop(i + 1, [cs EXCEPT ![i] = r.options], r.window,
                        left, esc)

\* (variant: the window is unwrapped once, before the loop)
toggle_button_result_Hoisted(cs, w, left, esc) ==
    IF ~w.present THEN [cams |-> cs, window |-> w, panicked |-> TRUE]
    ELSE ToggleLoop(1, cs, w, left, esc)

\* The whole system as a function of what it reads.
toggle_button_result(cs, w, left, esc) == ToggleLoop(1, cs, w, left, esc)

toggle_button_system ==
    /\ panicked = "none"
    /\ "toggle_button_system" \notin ran
    /\ LET r == toggle_button_result(cams, window, mouse_left, key_escape)
       IN  /\ cams' = r.cams
           /\ window' = r.window
           /\ panicked' = IF r.panicked THEN "toggle_button_system" ELSE "none"
           /\ handled' = (handled \/ (~r.panicked /\ Len(cams) > 0
                                      /\ (mouse_left \/ key_escape)))
    /\ ran' = ran \cup {"toggle_button_system"}
    /\ UNCHANGED <<mouse_left, key_escape, delta, player, bodies, timer,
                   texts, playerPrev, frameReqs, fired>>

\* ---- update_player_camera -----------------------------------------------
\* (variant: every body of the set is treated as kinematic)
is_kinematic_Any(body) == TRUE

\* RigidBody::is_kinematic
is_kinematic(body) == body.status = "kinematic"

\* RigidBody::set_next_kinematic_position: ignored by a non-kinematic body
set_next_kinematic_position(body, iso) ==
    IF body.status = "kinematic" THEN [body EXCEPT !.next = <<iso>>] ELSE body

\* (variant: the camera rotation's vector part is passed as the axis-angle)
NextPosition_Rotated(p) ==
    [translation |-> <<p.location[1], p.location[2], p.location[3]>>,
     axisangle |-> <<p.rotation[1], p.rotation[2], p.rotation[3]>>]

\* Isometry3::new(Vector3::new(location.x, .y, .z), Vector3::new(0., 0., 0.))
NextPosition(p) ==
    [translation |-> <<p.location[1], p.location[2], p.location[3]>>,
     axisangle |-> <<0, 0, 0>>]

\* The kinematic bodies receive the request; the others are left alone.
RequestAll(bs, iso) ==
    [i \in 1..Len(bs) |->
        IF is_kinematic(bs[i]) THEN set_next_kinematic_position(bs[i], iso)
        ELSE bs[i]]

Issued(bs, iso) == {<<i, iso>> : i \in {j \in 1..Len(bs) : is_kinematic(bs[j])}}

\* (variant: the rotation is recorded in an else-branch of the location test)
SyncOne_ElseIf(p, bs, transform) ==
    LET location_changed == p.location # transform.translation
        rotation_changed == p.rotation # transform.rotation
        p1 == IF location_changed
              THEN [p EXCEPT !.location = transform.translation] ELSE p
        p2 == IF ~location_changed /\ rotation_changed
              THEN [p1 EXCEPT !.rotation = transform.rotation] ELSE p1
    IN  [player |-> p2,
         bodies |-> IF location_changed THEN RequestAll(bs, NextPosition(p1))
                    ELSE bs,
         issued |-> IF location_changed THEN Issued(bs, NextPosition(p1))
                    ELSE {}]

\* (variant: the rotation is recorded together with the location only)
SyncOne_Together(p, bs, transform) ==
    LET location_changed == p.location # transform.translation
        p1 == IF location_changed
              THEN [location |-> transform.translation,
                    rotation |-> transform.rotation]
              ELSE p
    IN  [player |-> p1,
         bodies |-> IF location_changed THEN RequestAll(bs, NextPosition(p1))
                    ELSE bs,
         issued |-> IF location_changed THEN Issued(bs, NextPosition(p1))
                    ELSE {}]

\* The loop body for one (FlyCamera, GlobalTransform).
SyncOne(p, bs, transform) ==
    LET location_changed == p.location # transform.translation
        rotation_changed == p.rotation # transform.rotation
        p1 == IF location_changed
              THEN [p EXCEPT !.location = transform.translation] ELSE p
        p2 == IF rotation_changed
              THEN [p1 EXCEPT !.rotation = transform.rotation] ELSE p1
    IN  [player |-> p2,
         bodies |-> IF location_changed THEN RequestAll(bs, NextPosition(p1))
                    ELSE bs,
         issued |-> IF location_changed THEN Issued(bs, NextPosition(p1))
                    ELSE {}]

\* for (_, transform) in query.iter()
RECURSIVE SyncLoop(_, _, _, _, _)
SyncLoop(i, cs, p, bs, reqs) ==
    IF i > Len(cs) THEN [player |-> p, bodies |-> bs, issued |-> reqs]
    ELSE LET r == SyncOne(p, bs, cs[i])
         IN  SyncLoop(i + 1, cs, r.player, r.bodies, reqs \cup r.issued)

update_player_camera ==
    /\ panicked = "none"
    /\ "update_player_camera" \notin ran
    /\ LET r == SyncLoop(1, cams, player, bodies, {})
       IN  /\ player' = r.player
           /\ bodies' = r.bodies
           /\ frameReqs' = frameReqs \cup r.issued
    /\ ran' = ran \cup {"update_player_camera"}
    /\ UNCHANGED <<cams, window, mouse_left, key_escape, delta, timer, texts,
                   panicked, playerPrev, fired, handled>>

\* ---- debug_overlay ------------------------------------------------------
\* (variant: the timer was built non-repeating)
TimerTick_OneShot(t, d) ==
    IF t.finished THEN [t EXCEPT !.times_finished = 0]
    ELSE IF t.elapsed + d >= TimerDuration
         THEN [elapsed |-> TimerDuration, finished |-> TRUE,
               times_finished |-> 1]
         ELSE [elapsed |-> t.elapsed + d, finished |-> FALSE,
               times_finished |-> 0]

\* timer.0.tick(time.delta()) of the repeating timer of main
TimerTick(t, d) ==
    IF t.elapsed + d >= TimerDuration
    THEN [elapsed |-> (t.elapsed + d) % TimerDuration, finished |-> TRUE,
          times_finished |-> (t.elapsed + d) \div TimerDuration]
    ELSE [elapsed |-> t.elapsed + d, finished |-> FALSE, times_finished |-> 0]

just_finished(t) == t.times_finished > 0

\* (variant: the first Text entity is taken when there are several)
single_mut_ok_First(txts) == Len(txts) >= 1

\* query.single_mut() is Ok exactly when one entity matches
single_mut_ok(txts) == Len(txts) = 1

\* The whole system as a function of what it reads.
debug_overlay_result(t, d, p, txts) ==
    LET t1 == TimerTick(t, d)
    IN  IF just_finished(t1)
        THEN IF single_mut_ok(txts)
             THEN [timer |-> t1, texts |-> [txts EXCEPT ![1] = Format(p)],
                   panicked |-> FALSE]
             ELSE [timer |-> t1, texts |-> txts, panicked |-> TRUE]
        ELSE [timer |-> t1, texts |-> txts, panicked |-> FALSE]

debug_overlay ==
    /\ panicked = "none"
    /\ "debug_overlay" \notin ran
    /\ LET r == debug_overlay_result(timer, delta, player, texts)
       IN  /\ timer' = r.timer
           /\ texts' = r.texts
           /\ panicked' = IF r.panicked THEN "debug_overlay" ELSE "none"
           /\ fired' = IF just_finished(r.timer) /\ fired < 2
                       THEN fired + 1 ELSE fired
    /\ ran' = ran \cup {"debug_overlay"}
    /\ UNCHANGED <<cams, window, mouse_left, key_escape, delta, player,
                   bodies, playerPrev, frameReqs, handled>>

\* ---- the engine between two frames --------------------------------------
\* The fly-camera plugin and transform propagation give every camera a new
\* global transform.
MovedCams(cs) ==
    {[i \in 1..Len(cs) |->
         [cs[i] EXCEPT !.translation = m[i][1], !.rotation = m[i][2]]] :
       m \in [1..Len(cs) -> Positions \X Rotations]}

\* The physics plugin turns the RigidBodyBuilder components into bodies.
Registered(bs) == IF Len(bs) = 0 THEN {bs, WorldBodies} ELSE {bs}

NextFrame ==
    /\ panicked = "none"
    /\ ran = Systems
    /\ ran' = {}
    /\ playerPrev' = player
    /\ frameReqs' = {}
    /\ cams' \in MovedCams(cams)
    /\ bodies' \in Registered(bodies)
    /\ mouse_left' \in BOOLEAN
    /\ key_escape' \in BOOLEAN
    /\ delta' \in 0..MaxDelta
    /\ UNCHANGED <<window, player, timer, texts, panicked, fired, handled>>

\* ---- specifications -----------------------------------------------------
InitCommon ==
    /\ mouse_left \in BOOLEAN
    /\ key_escape \in BOOLEAN
    /\ delta = 0
    /\ player = DefaultPlayer
    /\ playerPrev = DefaultPlayer
    /\ bodies \in Registered(<<>>)
    /\ timer = [elapsed |-> 0, finished |-> FALSE, times_finished |-> 0]
    /\ ran = {}
    /\ panicked = "none"
    /\ frameReqs = {}
    /\ fired = 0
    /\ handled = FALSE

\* The world the startup systems build: one fly-camera, one window, one
\* Text entity reading "welcome".
Init ==
    /\ InitCommon
    /\ cams \in {<<FlyCam(pos, QuatIdentity)>> : pos \in {Zero3, CameraSpawn}}
    /\ window = [present |-> TRUE, cursor_locked |-> FALSE,
                 cursor_visible |-> TRUE]
    /\ texts = <<Welcome>>

\* A misused world without a primary window, with any number of fly-cameras.
InitNoWindow ==
    /\ InitCommon
    /\ cams \in {[i \in 1..n |-> FlyCam(CameraSpawn, QuatIdentity)] :
                    n \in 0..MaxCams}
    /\ window = [present |-> FALSE, cursor_locked |-> FALSE,
                 cursor_visible |-> TRUE]
    /\ texts = <<Welcome>>

\* A misused world with any number of Text entities.
InitTexts ==
    /\ InitCommon
    /\ cams = <<FlyCam(CameraSpawn, QuatIdentity)>>
    /\ window = [present |-> TRUE, cursor_locked |-> FALSE,
                 cursor_visible |-> TRUE]
    /\ texts \in {[i \in 1..n |-> Welcome] : n \in 0..MaxText}

Next ==
    \/ NextFrame
    \/ toggle_button_system
    \/ update_player_camera
    \/ debug_overlay

Spec == Init /\ [][Next]_vars

SpecNoWindow == InitNoWindow /\ [][Next]_vars

SpecTexts == InitTexts /\ [][Next]_vars

\* ---- vocabulary of the properties ----------------------------------------
ToggleStep ==
    "toggle_button_system" \notin ran /\ "toggle_button_system" \in ran'

UpdateStep ==
    "update_player_camera" \notin ran /\ "update_player_camera" \in ran'

OverlayStep == "debug_overlay" \notin ran /\ "debug_overlay" \in ran'

Synced == "update_player_camera" \in ran

\* the single fly-camera of setup_cameras
Cam == cams[1]

CamRecord == [location |-> Cam.translation, rotation |-> Cam.rotation]

KinematicIdx == {i \in 1..Len(bodies) : bodies[i].status = "kinematic"}

\* where a body is headed: its last requested position, else where it spawned
Target(b) == IF b.next = <<>> THEN b.position ELSE b.next[1].translation

Enabled(cs) == [i \in 1..Len(cs) |-> cs[i].enabled]

Due == timer.elapsed + delta >= TimerDuration

\* ---- C1 -----------------------------------------------------------------
\* C1 (as stated): once update_player_camera has run in a frame in which the
\* camera's position OR orientation differed from Player, exactly the
\* kinematic bodies have received a request for the camera's position; in a
\* frame where neither differed no body has received one.
C1_RequestOnAnyChange ==
    Synced =>
        IF playerPrev.location # Cam.translation
           \/ playerPrev.rotation # Cam.rotation
        THEN /\ {r[1] : r \in frameReqs} = KinematicIdx
             /\ \A r \in frameReqs : r[2].translation = Cam.translation
        ELSE frameReqs = {}

\* C1 (amended): the request is issued to exactly the kinematic bodies in the
\* frames in which the camera's POSITION differed from Player.location; in a
\* frame where the position did not differ no body receives a request,
\* whether or not the orientation differed.
C1_RequestOnLocationChange ==
    Synced =>
        IF playerPrev.location # Cam.translation
        THEN /\ {r[1] : r \in frameReqs} = KinematicIdx
             /\ \A r \in frameReqs : r[2].translation = Cam.translation
        ELSE frameReqs = {}

C1_Witness ==
    /\ Synced
    /\ playerPrev.location # Cam.translation
    /\ KinematicIdx # {}
    /\ {r[1] : r \in frameReqs} = KinematicIdx

\* ---- C2 -----------------------------------------------------------------
\* C2: after update_player_camera has run in a frame, Player.location is the
\* camera's global translation and Player.rotation its global rotation,
\* whichever of the two changed.
C2_PlayerReflectsCamera ==
    Synced => player.location = Cam.translation
              /\ player.rotation = Cam.rotation

C2_Witness ==
    /\ Synced
    /\ playerPrev.location = Cam.translation
    /\ playerPrev.rotation # Cam.rotation
    /\ player = CamRecord

\* ---- C3 -----------------------------------------------------------------
\* C3: once update_player_camera has run in a frame, every kinematic body of
\* the rigid-body set is headed for the camera's current position (its last
\* requested position or, failing a request, its spawn position).
C3_HitboxFollowsCamera ==
    Synced => \A i \in KinematicIdx : Target(bodies[i]) = Cam.translation

\* ---- C4 -----------------------------------------------------------------
\* C4: every request carries the zero rotation, and a frame in which only the
\* camera's orientation changed records it in Player.rotation and alters no
\* body and issues no request.
C4_ZeroRotation ==
    /\ \A r \in frameReqs : r[2].axisangle = Zero3
    /\ \A i \in 1..Len(bodies) :
          bodies[i].next # <<>> => bodies[i].next[1].axisangle = Zero3

C4_RotationOnlyFrame ==
    (/\ UpdateStep
     /\ player.location = Cam.translation
     /\ player.rotation # Cam.rotation)
    => /\ player'.rotation = Cam.rotation
       /\ bodies' = bodies
       /\ frameReqs' = frameReqs

C4_RotationNotApplied == []C4_ZeroRotation /\ [][C4_RotationOnlyFrame]_vars

C4_Witness ==
    /\ Synced
    /\ playerPrev.location = Cam.translation
    /\ playerPrev.rotation # Cam.rotation
    /\ player.rotation = Cam.rotation
    /\ \E i \in KinematicIdx : bodies[i].next # <<>>

\* ---- C5 -----------------------------------------------------------------
\* C5: debug_overlay overwrites the label with the dump of the current Player
\* exactly when the repeating timer, ticked by the frame's delta, has just
\* finished, and leaves it alone otherwise; nothing else writes the label,
\* which reads "welcome" until the first firing.
C5_OverlayWrites ==
    OverlayStep =>
        IF Due
        THEN just_finished(timer') /\ texts' = <<Format(player)>>
        ELSE ~just_finished(timer') /\ texts' = texts

C5_OnlyOverlayWrites == ~OverlayStep => texts' = texts

C5_LabelOnTimer ==
    /\ [](fired = 0 => texts = <<Welcome>>)
    /\ [][C5_OverlayWrites]_vars
    /\ [][C5_OnlyOverlayWrites]_vars

C5_Witness ==
    /\ fired = 2
    /\ "debug_overlay" \in ran
    /\ just_finished(timer)
    /\ texts = <<Format(player)>>
    /\ player # DefaultPlayer

\* ---- C6 -----------------------------------------------------------------
\* C6: toggle_button_system leaves the camera enabled and the cursor locked
\* and hidden after a left-click without Escape, disabled, unlocked and
\* visible after Escape (with or without a left-click), and unchanged after
\* neither; no other step of the frame touches the three values.
C6_ToggleEffect ==
    ToggleStep =>
        /\ (mouse_left /\ ~key_escape) =>
              /\ cams'[1].enabled
              /\ window'.cursor_locked
              /\ ~window'.cursor_visible
        /\ key_escape =>
              /\ ~cams'[1].enabled
              /\ ~window'.cursor_locked
              /\ window'.cursor_visible
        /\ (~mouse_left /\ ~key_escape) =>
              /\ cams'[1].enabled = cams[1].enabled
              /\ window' = window

C6_OnlyToggle ==
    ~ToggleStep => Enabled(cams') = Enabled(cams) /\ window' = window

C6_Toggle == [][C6_ToggleEffect]_vars /\ [][C6_OnlyToggle]_vars

C6_Witness ==
    /\ "toggle_button_system" \in ran
    /\ mouse_left
    /\ key_escape
    /\ ~Cam.enabled
    /\ ~window.cursor_locked
    /\ window.cursor_visible

\* ---- C7 -----------------------------------------------------------------
\* C7: debug_overlay fails exactly when the timer has just finished and the
\* number of Text entities is not one; when it fails the timer has been
\* advanced and no label and no Player field has been modified.
C7_OverlayFailure ==
    OverlayStep =>
        /\ (panicked' = "debug_overlay") <=> (Due /\ Len(texts) # 1)
        /\ (panicked' = "debug_overlay") =>
              /\ just_finished(timer')
              /\ timer'.elapsed = (timer.elapsed + delta) % TimerDuration
              /\ texts' = texts
              /\ player' = player
        /\ ~Due => timer'.elapsed = timer.elapsed + delta

C7_TextUnwrap == [][C7_OverlayFailure]_vars

C7_Witness ==
    /\ panicked = "debug_overlay"
    /\ Len(texts) = 0
    /\ just_finished(timer)

\* ---- C8 -----------------------------------------------------------------
\* C8: without a primary window toggle_button_system fails whenever a
\* FlyCamera exists, pressed input or not, having modified no enabled flag;
\* with no FlyCamera it does not fail and changes nothing.
C8_ToggleFailure ==
    (ToggleStep /\ ~window.present) =>
        /\ (panicked' = "toggle_button_system") <=> (Len(cams) >= 1)
        /\ cams' = cams
        /\ window' = window

C8_WindowUnwrap == [][C8_ToggleFailure]_vars

C8_Witness ==
    /\ panicked = "toggle_button_system"
    /\ ~window.present
    /\ ~mouse_left
    /\ ~key_escape
    /\ \A i \in 1..Len(cams) : cams[i].enabled

\* ---- C9 -----------------------------------------------------------------
\* C9: whatever the order of update_player_camera and debug_overlay in a
\* frame, the text written on a firing is the dump of a whole record: Player
\* as it stood at the end of the previous frame, or the camera's transform
\* of this frame.
C9_WholeRecord ==
    ("debug_overlay" \in ran /\ just_finished(timer)) =>
        \/ texts = <<Format(playerPrev)>>
        \/ texts = <<Format(CamRecord)>>

C9_Witness ==
    /\ "debug_overlay" \in ran
    /\ just_finished(timer)
    /\ Synced
    /\ playerPrev.location # Cam.translation
    /\ playerPrev.rotation # Cam.rotation
    /\ texts = <<Format(playerPrev)>>

\* ---- C10 ----------------------------------------------------------------
\* C10: once a left-click or Escape has been handled, FlyCamera.enabled,
\* cursor locked and cursor hidden agree, and running the system again on
\* the same input changes none of them.
C10_Agree ==
    handled => /\ Cam.enabled = window.cursor_locked
               /\ window.cursor_locked = ~window.cursor_visible

C10_Idempotent ==
    ToggleStep =>
        LET again == toggle_button_result(cams', window', mouse_left,
                                          key_escape)
        IN  again.cams = cams' /\ again.window = window'

C10_ToggleConsistent == []C10_Agree /\ [][C10_Idempotent]_vars

C10_Witness ==
    /\ handled
    /\ Cam.enabled
    /\ window.cursor_locked
    /\ ~window.cursor_visible
    /\ mouse_left
    /\ "toggle_button_system" \in ran

====
